---- MODULE Spec2Model ----
(***************************************************************************)
(* Client-side comment / offline-sync mechanism of the site: the legacy    *)
(* comments hook (src/src/hooks/useComments_OLD.js), the hybrid API        *)
(* (src/src/utils/api.js), the storage utilities (utils/storage) and the   *)
(* useLocalStorage hook, together with the handlers of the Express server  *)
(* they talk to.                                                           *)
(*                                                                         *)
(* Strings are sequences of one-character strings, so that trim, length,   *)
(* toLowerCase, includes and the e-mail regular expression are computed.   *)
(* Time is Date.now() in milliseconds.                                     *)
(***************************************************************************)
EXTENDS Integers, Sequences, FiniteSets, TLC

\* ------------------------------------------------------------------------
\* Bounds of the model
\* ------------------------------------------------------------------------
MaxEpochs == 1
MaxMs == 1
MaxAccepted == 2
MaxQueued == 1
MaxAdds == 1
MaxPending == 2
MaxDb == 2
MaxTimers == 2
MaxRuns == 2
MaxSent == 4
MaxVisits == 2
MaxApiComments == 2
MaxEvents == 2
MaxErrorCalls == 1
MaxClock == 800
MaxRetry == 1
MaxApiSteps == 1
MaxApiEpochs == 1
MaxVoteRequests == 2
MaxVotes == 2
MaxServed == 4
MaxDays == 2
MaxFetches == 1
MaxPageSize == 2
MaxGenerated == 1
MaxLoads == 2
MaxPage == 2
MaxToggles == 2

\* ------------------------------------------------------------------------
\* Program constants
\* ------------------------------------------------------------------------
maxRetries == 3
RETRY_DELAY == 300000
ONLINE_DEBOUNCE == 3000
DUPLICATE_WINDOW == 300000
MIN_NAME == 2
MIN_MESSAGE == 10
MAX_MESSAGE == 1000

\* ------------------------------------------------------------------------
\* Strings
\* ------------------------------------------------------------------------
Whitespace == {" ", "\t", "\n"}

Upper == <<"A","B","C","D","E","F","G","H","I","J","K","L","M",
           "N","O","P","Q","R","S","T","U","V","W","X","Y","Z">>

Lower == <<"a","b","c","d","e","f","g","h","i","j","k","l","m",
           "n","o","p","q","r","s","t","u","v","w","x","y","z">>

LowerChar(c) ==
  IF \E i \in 1..Len(Upper) : Upper[i] = c
    THEN Lower[CHOOSE i \in 1..Len(Upper) : Upper[i] = c]
    ELSE c

toLowerCase(s) == [i \in 1..Len(s) |-> LowerChar(s[i])]

RECURSIVE trimStart(_)
trimStart(s) ==
  IF s # <<>> /\ Head(s) \in Whitespace THEN trimStart(Tail(s)) ELSE s

RECURSIVE trimEnd(_)
trimEnd(s) ==
  IF s # <<>> /\ s[Len(s)] \in Whitespace
    THEN trimEnd(SubSeq(s, 1, Len(s) - 1))
    ELSE s

trim(s) == trimEnd(trimStart(s))

includes(s, w) ==
  \E i \in 1..(Len(s) - Len(w) + 1) : SubSeq(s, i, i + Len(w) - 1) = w

\* /^[^\s@]+@[^\s@]+\.[^\s@]+$/ : one "@", no white space, and after the "@"
\* a "." with at least one character on each side of it.
emailRegexTest(s) ==
  \E i \in 1..Len(s) :
    /\ s[i] = "@"
    /\ i > 1
    /\ \A k \in 1..Len(s) : k # i => s[k] \notin (Whitespace \cup {"@"})
    /\ \E j \in (i + 2)..(Len(s) - 1) : s[j] = "."

Repeat(c, n) == [i \in 1..n |-> c]

\* ------------------------------------------------------------------------
\* validateComment (useComments_OLD.js): the list of error messages
\* ------------------------------------------------------------------------
forbiddenWords == { <<"s","p","a","m">>, <<"f","u","c","k">>, <<"s","h","i","t">> }

hasForbiddenWords(message) ==
  \E w \in forbiddenWords : includes(toLowerCase(message), toLowerCase(w))

\* validateComment measuring the message as typed, white space included
validateCommentUntrimmed(comment) ==
  (IF comment.name = <<>> \/ Len(trim(comment.name)) < MIN_NAME
     THEN <<"Nome deve ter pelo menos 2 caracteres">> ELSE <<>>)
  \o
  (IF comment.email = <<>> \/ ~emailRegexTest(comment.email)
     THEN <<"Email invalido">> ELSE <<>>)
  \o
  (IF comment.message = <<>> \/ Len(comment.message) < MIN_MESSAGE
     THEN <<"Mensagem deve ter pelo menos 10 caracteres">> ELSE <<>>)
  \o
  (IF comment.message # <<>> /\ Len(comment.message) > MAX_MESSAGE
     THEN <<"Mensagem deve ter no maximo 1000 caracteres">> ELSE <<>>)
  \o
  (IF hasForbiddenWords(comment.message)
     THEN <<"Mensagem contem palavras nao permitidas">> ELSE <<>>)

validateComment(comment) ==
  (IF comment.name = <<>> \/ Len(trim(comment.name)) < MIN_NAME
     THEN <<"Nome deve ter pelo menos 2 caracteres">> ELSE <<>>)
  \o
  (IF comment.email = <<>> \/ ~emailRegexTest(comment.email)
     THEN <<"Email invalido">> ELSE <<>>)
  \o
  (IF comment.message = <<>> \/ Len(trim(comment.message)) < MIN_MESSAGE
     THEN <<"Mensagem deve ter pelo menos 10 caracteres">> ELSE <<>>)
  \o
  (IF comment.message # <<>> /\ Len(comment.message) > MAX_MESSAGE
     THEN <<"Mensagem deve ter no maximo 1000 caracteres">> ELSE <<>>)
  \o
  (IF hasForbiddenWords(comment.message)
     THEN <<"Mensagem contem palavras nao permitidas">> ELSE <<>>)

\* ------------------------------------------------------------------------
\* Inputs: the comment data a caller hands to addComment
\* ------------------------------------------------------------------------
nameAl == <<"A","l">>
mailA == <<"a","@","b",".","c">>
mailB == <<"x","@","y",".","z">>
msgHello == <<"h","e","l","l","o"," ","w","o","r","l","d">>
msgOther == <<"s","e","c","o","n","d"," ","n","o","t","e">>

inA == [name |-> nameAl, email |-> mailA, message |-> msgHello]
inApad == [name |-> nameAl, email |-> mailA, message |-> <<" ">> \o msgHello \o <<" ">>]
inB == [name |-> nameAl, email |-> mailB, message |-> msgOther]

inBad == [inA EXCEPT !.email = <<"a","@","b">>]

\* the inputs, by number: 1..3 are valid, 4..9 fail validateComment each in
\* its own way
Inputs ==
  << inA, inApad, inB,
     inBad,
     [inA EXCEPT !.name = <<" ","A"," ">>],
     [inA EXCEPT !.email = <<"a"," ","@","b",".","c">>],
     [inA EXCEPT !.message = <<"t","o","o"," ","s","h","o","r","t"," "," ">>],
     [inA EXCEPT !.message = Repeat("m", MAX_MESSAGE + 1)],
     [inA EXCEPT !.message = <<"b","u","y"," ","S","p","A","m"," ","n","o","w">>] >>

ValidInputs == {1, 2, 3}
InvalidInputs == {4, 5, 6, 7, 8, 9}
CommentInputs == ValidInputs \cup InvalidInputs

\* ------------------------------------------------------------------------
\* State
\* ------------------------------------------------------------------------
VARIABLES
  now,              \* Date.now()
  navOnline,        \* navigator.onLine
  serverUp,         \* the server answers requests
  dbComments,       \* server: data.comments of database.json
  lsPending,        \* localStorage 'pendingComments'
  enableOffline,    \* option of the hook
  mountOnline,      \* isOnline as closed over by the first render
  comments,         \* useState: comments
  pendingComments,  \* useState: pendingComments
  isLoading,        \* useState
  isSubmitting,     \* useState
  error,            \* useState: null or a message
  isOnline,         \* useState
  pendingRetryRef,  \* useRef: a retry run is in progress
  timers,           \* setTimeout callbacks not yet run
  runs,             \* retryPendingComments calls suspended at their await
  adds,             \* addComment calls suspended at their await
  ret,              \* the last completed call and what it returned
  nextUid,          \* number of comments addComment has accepted, plus one
  sent,             \* per accepted comment: submissions made by retry runs
  sinceOnline,      \* an 'online' event happened and nothing disturbed it since
  dbVisits,         \* server: data.visits of database.json
  lsVisits,         \* localStorage 'visits'
  ls,               \* useLocalStorage: window.localStorage, per key
  storedValue,      \* useLocalStorage: useState storedValue, per instance
  storageEvents,    \* 'storage' events queued for each tab
  storageFull,      \* window.localStorage.setItem throws QuotaExceededError
  errorCalls,       \* useLocalStorage: the calls of onError so far
  debounceValue,    \* useDebounce: the value handed in by the last render
  debounceDelay,    \* useDebounce: delay of the last render
  debounceMaxWait,  \* useDebounce: maxWait of the last render, 0 when absent
  debouncedValue,   \* useDebounce: useState
  previousValueRef, \* useDebounce: useRef
  timeoutRef,       \* useDebounce: the ref holds a timer id
  maxTimeoutRef,    \* useDebounce: the ref holds a timer id
  hasInvokedRef,    \* useDebounce: useRef
  timeoutTimer,     \* the timer of timeoutRef while it is armed
  maxTimer,         \* the timer of maxTimeoutRef while it is armed
  effectCleanup,    \* the last run of the effect returned its cleanup
  changedAt,        \* when the value last changed
  pendingSince,     \* the first change not delivered yet, -1 when none
  cache,            \* useApi: option
  retry,            \* useApi: option
  retryConditionOpt, \* useApi: the default retryCondition, or the caller's
  apiData,          \* useApi: useState data
  apiLoading,       \* useApi: useState loading
  apiError,         \* useApi: useState error
  cacheRef,         \* useApi: useRef(new Map()), per cache key
  storedFor,        \* per cache key: the options of the request stored there
  apiFetch,         \* useApi: the request suspended at await fetch
  retryTimeoutRef,  \* useApi: the retry timer while it is armed
  attempts,         \* requests sent for the last call of execute
  onErrorCalls,     \* calls of onError for the last call of execute
  dbVotes,          \* server: data.votes of database.json
  voteRequests,     \* server: the POST /api/votes requests being handled
  visitsServed,     \* POST /api/visits/increment requests answered with 200
  hasIncremented,   \* useCounter: useRef
  counterVisits,    \* useCounter: useState visits (the counts)
  increments,       \* useCounter: incrementVisit calls suspended at their await
  requestsSent,     \* increment requests sent since the flag was last reset
  initializing,     \* useCounter: initializeCounter is at await fetchVisits()
  autoTimer,        \* useCounter: the timer of the automatic increment is armed
  fetches,          \* useCounter: fetchVisits calls of reload in flight
  ucSortBy,         \* useComments: option sortBy of the last render
  ucComments,       \* useComments: useState comments
  ucLoading,        \* useComments: useState loading
  ucError,          \* useComments: useState error
  ucHasMore,        \* useComments: useState hasMore
  ucPage,           \* useComments: useState page
  ucLocalComments,  \* useComments: localComments of useLocalStorage
  ucLoads,          \* useComments: loadComments calls suspended at their await
  ucLikes,          \* useComments: toggleLike calls suspended at their await
  ucToggles         \* useComments: toggleLike calls so far

\* the state of the legacy comments hook
hookVars == << enableOffline, mountOnline, comments, pendingComments,
               isLoading, isSubmitting, error, isOnline, pendingRetryRef,
               timers, runs, adds, nextUid, sent, sinceOnline >>

\* the visit counters, on the server and in localStorage
visitVars == << dbVisits, lsVisits >>

\* the useLocalStorage instances and the storage they share
tabVars == << ls, storedValue, storageEvents, storageFull, errorCalls >>

\* one useDebounce instance
debounceVars == << debounceValue, debounceDelay, debounceMaxWait,
                   debouncedValue, previousValueRef, timeoutRef,
                   maxTimeoutRef, hasInvokedRef, timeoutTimer, maxTimer,
                   effectCleanup, changedAt, pendingSince >>

\* one useApi instance
apiVars == << cache, retry, retryConditionOpt, apiData, apiLoading, apiError,
              cacheRef, storedFor, apiFetch, retryTimeoutRef, attempts,
              onErrorCalls >>

\* the votes of the server and the requests it is handling
serverVars == << dbVotes, voteRequests, visitsServed >>

\* one useCounter instance
counterVars == << hasIncremented, counterVisits, increments, requestsSent,
                  initializing, autoTimer, fetches >>

\* one instance of the current useComments
commentsVars == << ucSortBy, ucComments, ucLoading, ucError, ucHasMore, ucPage,
                   ucLocalComments, ucLoads, ucLikes, ucToggles >>

\* the state of the other hooks and handlers
restVars == << debounceVars, apiVars, serverVars, counterVars, commentsVars >>

\* what the actions of useDebounce leave alone, the clock apart
notDebounce == << navOnline, serverUp, dbComments, lsPending, ret, hookVars,
                 visitVars, tabVars, apiVars, serverVars, counterVars,
                 commentsVars >>

\* the browser, the server and the stores the comment hooks share
baseVars == << navOnline, serverUp, dbComments, lsPending, ret, hookVars,
               visitVars, tabVars >>

\* what the actions of useApi leave alone, the clock apart
notApi == << baseVars, debounceVars, serverVars, counterVars, commentsVars >>

\* what the handlers of the server leave alone, the database apart
notServer == << navOnline, serverUp, lsPending, hookVars, lsVisits, tabVars,
               debounceVars, apiVars, counterVars, commentsVars >>

\* what useCounter leaves alone, the visits and the last call apart
notCounter == << now, navOnline, serverUp, dbComments, lsPending, hookVars,
                tabVars, debounceVars, apiVars, serverVars, commentsVars >>

\* what the current useComments leaves alone
notComments == << now, baseVars, debounceVars, apiVars, serverVars,
                 counterVars >>

vars == << now, navOnline, serverUp, dbComments, lsPending, ret, hookVars,
           visitVars, tabVars, restVars >>

\* { ...rec, ...upd }
With(rec, upd) ==
  [f \in (DOMAIN rec) \cup (DOMAIN upd) |->
     IF f \in DOMAIN upd THEN upd[f] ELSE rec[f]]

Abs(x) == IF x < 0 THEN -x ELSE x

SetMax(S) == CHOOSE x \in S : \A y \in S : y <= x

SetMin(S) == CHOOSE x \in S : \A y \in S : x <= y

\* the last completed call: its name and what it returned
Ret(op, val) == [op |-> op, val |-> val]

\* ------------------------------------------------------------------------
\* utils/storage: commentsStorage over localStorage 'pendingComments'
\* ------------------------------------------------------------------------
\* addPending without its push
addPendingDropped(store, comment, t) == store

addPending(store, comment, t) ==
  Append(store, With(comment, [id |-> <<"local", t>>, date |-> t,
                               pending |-> TRUE, attempts |-> 0]))

removePending(store, commentId) ==
  SelectSeq(store, LAMBDA c : c.id # commentId)

incrementAttempts(store, commentId, t) ==
  IF \E i \in 1..Len(store) : store[i].id = commentId
    THEN LET i == SetMin({k \in 1..Len(store) : store[k].id = commentId})
         IN  [store EXCEPT ![i] = With(@, [attempts |-> @.attempts + 1,
                                           lastAttempt |-> t])]
    ELSE store

\* ------------------------------------------------------------------------
\* backend/server.js: POST /api/comments and GET /api/comments
\* ------------------------------------------------------------------------
postAccepts(body) == body.name # <<>> /\ body.message # <<>>

postComment(db, body, t) ==
  [ id |-> SetMax({c.id : c \in {db[i] : i \in 1..Len(db)}} \cup {0}) + 1,
    name |-> body.name,
    email |-> body.email,
    message |-> body.message,
    page |-> "geral",
    date |-> t,
    approved |-> TRUE ]

\* Array.prototype.sort by date, newest first; stable
RECURSIVE insertByDate(_, _)
insertByDate(sorted, c) ==
  IF sorted = <<>> THEN <<c>>
  ELSE IF Head(sorted).date >= c.date
         THEN <<Head(sorted)>> \o insertByDate(Tail(sorted), c)
         ELSE <<c>> \o sorted

RECURSIVE sortedComments(_)
sortedComments(db) ==
  IF db = <<>> THEN <<>>
  ELSE insertByDate(sortedComments(SubSeq(db, 1, Len(db) - 1)), db[Len(db)])

\* ------------------------------------------------------------------------
\* backend/server.js: POST /api/visits/increment and GET /api/visits
\* ------------------------------------------------------------------------
Pages == {"total", "cover", "other"}

\* new Date().toISOString().split('T')[0], as a day number
today(t) == t \div 86400000

initialVisits == [total |-> 0, coverPage |-> 0, daily |-> << >>, lastUpdate |-> 0]

\* POST /api/votes: the covers, the initial data.votes, and req.body.coverId:
\* a cover, another id, or "" when it is missing
Covers == {"cover1", "cover2", "cover3"}

CoverIds == Covers \cup {"cover4", ""}

initialVotes == [cover1 |-> 45, cover2 |-> 32, cover3 |-> 23]

\* the handler, had it counted the day only for the pages it knows
postVisitsKnownPages(visits, page, t) ==
  LET counted == IF page = "total" THEN [visits EXCEPT !.total = @ + 1]
                 ELSE IF page = "cover" THEN [visits EXCEPT !.coverPage = @ + 1]
                 ELSE visits
      day == today(t)
      daily == [d \in (DOMAIN visits.daily) \cup {day} |->
                  (IF d \in DOMAIN visits.daily THEN visits.daily[d] ELSE 0)
                  + (IF d = day /\ page \in {"total", "cover"} THEN 1 ELSE 0)]
  IN  [counted EXCEPT !.daily = daily, !.lastUpdate = t]

\* data.visits after the handler of POST /api/visits/increment
postVisitsIncrement(visits, page, t) ==
  LET counted == IF page = "total" THEN [visits EXCEPT !.total = @ + 1]
                 ELSE IF page = "cover" THEN [visits EXCEPT !.coverPage = @ + 1]
                 ELSE visits
      day == today(t)
      daily == [d \in (DOMAIN visits.daily) \cup {day} |->
                  (IF d \in DOMAIN visits.daily THEN visits.daily[d] ELSE 0)
                  + (IF d = day THEN 1 ELSE 0)]
  IN  [counted EXCEPT !.daily = daily, !.lastUpdate = t]

\* ------------------------------------------------------------------------
\* utils/api.js: hybridAPI
\* ------------------------------------------------------------------------
hybridAPIMethods == {"incrementVisit", "getVisits", "addComment"}

\* fetch reaches the server and the server answers
serverReachable == navOnline /\ serverUp

\* the request of commentsAPI.add succeeds
requestOk(body) == serverReachable /\ postAccepts(body)

\* localStorage.getItem of a key that is absent
NoItem == << >>

\* JSON.parse(localStorage.getItem('visits') || '{"total": 0, "coverPage": 0}')
parseVisits(item) ==
  IF item = NoItem THEN [total |-> 0, coverPage |-> 0] ELSE item

\* if (page === 'total') total += 1; if (page === 'cover') coverPage += 1
bumpVisits(localVisits, page) ==
  IF page = "total" THEN [localVisits EXCEPT !.total = @ + 1]
  ELSE IF page = "cover" THEN [localVisits EXCEPT !.coverPage = @ + 1]
  ELSE localVisits

\* how a call of hybridAPI settled
fulfilled(value) == [settled |-> "fulfilled", value |-> value]
rejected(reason) == [settled |-> "rejected", value |-> reason]

\* apiRequest: the parsed answer, or the error it rethrows
apiRequest(ok, answer) ==
  IF ok THEN fulfilled(answer) ELSE rejected(<<"Erro na requisicao">>)

\* a catch branch that rethrows
hybridRethrown(value) == rejected(value)

\* what the catch branch of a hybridAPI method settles with
hybridCaught(value) == fulfilled(value)

\* the catch branch of hybridAPI.addComment: the new 'pendingComments' list
hybridFallback(store, commentData, t) ==
  Append(store, With(commentData, [id |-> <<"num", t>>, date |-> t,
                                   pending |-> TRUE]))

\* the comment data a caller hands to hybridAPI.addComment; the server
\* answers 400 to the last one
ApiBodies == { inA, inB, [inA EXCEPT !.message = << >>] }

\* hybridAPI.incrementVisit(page), from the call to the moment it settles:
\* what follows the await runs without interruption and reads localStorage
\* afresh
hybridIncrementVisit(page) ==
  LET served == postVisitsIncrement(dbVisits, page, now)
      request == apiRequest(serverReachable,
                            [success |-> TRUE, visits |-> served])
      localVisits == bumpVisits(parseVisits(lsVisits), page)
  IN
  /\ localVisits.total + localVisits.coverPage <= MaxVisits
  /\ serverReachable => served.daily[today(now)] <= MaxVisits
  /\ dbVisits' = IF serverReachable THEN served ELSE dbVisits
  /\ lsVisits' = localVisits
  /\ ret' = Ret("hybridAPI.incrementVisit",
                IF request.settled = "fulfilled"
                  THEN request
                  ELSE hybridCaught([success |-> TRUE, visits |-> localVisits]))
  /\ UNCHANGED << now, navOnline, serverUp, dbComments, lsPending, hookVars, restVars,
                  tabVars >>

\* hybridAPI.getVisits()
hybridGetVisits ==
  LET request == apiRequest(serverReachable, dbVisits)
  IN
  /\ ret' = Ret("hybridAPI.getVisits",
                IF request.settled = "fulfilled"
                  THEN request
                  ELSE hybridCaught(parseVisits(lsVisits)))
  /\ UNCHANGED << now, navOnline, serverUp, dbComments, lsPending, hookVars, restVars,
                  visitVars, tabVars >>

\* hybridAPI.addComment(commentData)
hybridAddComment(commentData) ==
  LET ok == requestOk(commentData)
      stored == postComment(dbComments, commentData, now)
      request == apiRequest(ok, [success |-> TRUE, comment |-> stored])
      local == hybridFallback(lsPending, commentData, now)
  IN
  /\ Len(dbComments) + Len(lsPending) < MaxApiComments
  /\ dbComments' = IF ok THEN Append(dbComments, stored) ELSE dbComments
  /\ lsPending' = IF ok THEN lsPending ELSE local
  /\ ret' = Ret("hybridAPI.addComment",
                IF request.settled = "fulfilled"
                  THEN request
                  ELSE hybridCaught([success |-> TRUE,
                                     comment |-> local[Len(local)]]))
  /\ UNCHANGED << now, navOnline, serverUp, hookVars, restVars, visitVars, tabVars >>

\* ------------------------------------------------------------------------
\* hooks/useLocalStorage.js
\* ------------------------------------------------------------------------
\* Two tabs of the site; three instances of the hook on one key, two of them
\* in the same tab, and one instance on another key.
Tabs == {"A", "B"}
Keys == {"comments", "drafts"}
Instances == {"a1", "a2", "b1", "b2"}

tabOf(i) == IF i \in {"a1", "a2"} THEN "A" ELSE "B"
keyOf(i) == IF i = "b2" THEN "drafts" ELSE "comments"

\* e.key of the event of localStorage.clear()
NullKey == "null"

\* option syncAcrossTabs, at its default
syncAcrossTabs == TRUE

\* The values the callers store: one-digit numbers and strings.
initialValue == <<"number", 0>>
Values == { <<"number", 1>>, <<"string", <<"1">>>> }

\* NaN, null, and an object that refers to itself
notANumber == <<"NaN", 0>>
null == <<"null", 0>>
circular == <<"circular", 0>>

\* every value a caller may hand to setValue
AnyValues == Values \cup {notANumber, circular}

Digits == <<"0","1","2","3","4","5","6","7","8","9">>

\* JSON.stringify does not throw
canSerialize(value) == value # circular

\* serialize = JSON.stringify
serialize(value) ==
  IF value[1] = "number" THEN << Digits[value[2] + 1] >>
  ELSE IF value[1] \in {"NaN", "null"} THEN <<"n","u","l","l">>
  ELSE <<"\"">> \o value[2] \o <<"\"">>

\* deserialize = JSON.parse does not throw
canDeserialize(item) ==
  \/ item = <<"n","u","l","l">>
  \/ Len(item) = 1 /\ \E d \in 1..Len(Digits) : Digits[d] = item[1]
  \/ /\ Len(item) >= 2
     /\ item[1] = "\"" /\ item[Len(item)] = "\""
     /\ \A k \in 2..(Len(item) - 1) : item[k] # "\""

\* deserialize = JSON.parse
deserialize(item) ==
  IF item[1] = "\""
    THEN <<"string", SubSeq(item, 2, Len(item) - 1)>>
  ELSE IF item[1] = "n" THEN null
    ELSE <<"number", (CHOOSE d \in 1..Len(Digits) : Digits[d] = item[1]) - 1>>

\* readValue: what the hook makes of the stored item
readValue(item) ==
  IF item = NoItem THEN initialValue
  ELSE IF canDeserialize(item) THEN deserialize(item)
  ELSE <<"string", item>>

\* what a listener makes of an event it takes: setStoredValue, or nothing
\* when deserialize throws
applyEvent(value, e) ==
  IF e.newValue = NoItem THEN initialValue
  ELSE IF canDeserialize(e.newValue) THEN deserialize(e.newValue)
  ELSE value

\* listener of the native 'storage' event; every event queued here comes
\* from window.localStorage
handleStorageChange(value, key, e) ==
  IF e.key = key \/ e.key = NullKey THEN applyEvent(value, e) ELSE value

\* listener of the 'local-storage' event the hook dispatches in its own tab
handleCustomStorageChange(value, key, e) ==
  IF e.key = key THEN applyEvent(value, e) ELSE value

\* the browser queues a 'storage' event for every other tab when a write
\* changed the storage
queued(tab, e, changed) ==
  [t \in Tabs |-> IF t # tab /\ changed THEN Append(storageEvents[t], e)
                                         ELSE storageEvents[t]]

\* the 'local-storage' event runs the listeners of the tab before
\* dispatchEvent returns; writer: the instance that called setStoredValue
\* with mine just before
dispatched(tab, writer, mine, e) ==
  [j \in Instances |->
     IF tabOf(j) = tab /\ syncAcrossTabs
       THEN handleCustomStorageChange(IF j = writer THEN mine ELSE storedValue[j],
                                      keyOf(j), e)
       ELSE IF j = writer THEN mine ELSE storedValue[j]]

setValue(i, value) ==
  LET key == keyOf(i)
      serializedValue == serialize(value)
      e == [key |-> key, newValue |-> serializedValue]
  IN
  /\ \A t \in Tabs \ {tabOf(i)} : Len(storageEvents[t]) < MaxEvents
  /\ IF canSerialize(value) /\ ~storageFull THEN
       /\ ls' = [ls EXCEPT ![key] = serializedValue]
       /\ storedValue' = dispatched(tabOf(i), i, value, e)
       /\ storageEvents' = queued(tabOf(i), e, ls[key] # serializedValue)
       /\ UNCHANGED errorCalls
     ELSE
       \* serialize or setItem throws: the catch calls onError
       /\ Len(errorCalls) < MaxErrorCalls
       /\ errorCalls' = Append(errorCalls, [operation |-> "write", key |-> key])
       /\ UNCHANGED << ls, storedValue, storageEvents >>
  /\ UNCHANGED << now, navOnline, serverUp, dbComments, lsPending, ret,
                  hookVars, restVars, visitVars, storageFull >>

removeValue(i) ==
  LET key == keyOf(i)
      e == [key |-> key, newValue |-> NoItem]
  IN
  /\ \A t \in Tabs \ {tabOf(i)} : Len(storageEvents[t]) < MaxEvents
  /\ ls' = [ls EXCEPT ![key] = NoItem]
  /\ storedValue' = dispatched(tabOf(i), i, initialValue, e)
  /\ storageEvents' = queued(tabOf(i), e, ls[key] # NoItem)
  /\ UNCHANGED << now, navOnline, serverUp, dbComments, lsPending, ret,
                  hookVars, restVars, visitVars, storageFull, errorCalls >>

\* localStorageUtils.clear() in a tab: no 'local-storage' event
clear(tab) ==
  /\ \A t \in Tabs \ {tab} : Len(storageEvents[t]) < MaxEvents
  /\ ls' = [k \in Keys |-> NoItem]
  /\ storageEvents' = queued(tab, [key |-> NullKey, newValue |-> NoItem],
                             \E k \in Keys : ls[k] # NoItem)
  /\ UNCHANGED << now, navOnline, serverUp, dbComments, lsPending, ret,
                  hookVars, restVars, visitVars, storedValue, storageFull, errorCalls >>

\* a tab takes the oldest 'storage' event queued for it
storageEvent(tab) ==
  /\ storageEvents[tab] # << >>
  /\ storedValue' =
       [j \in Instances |->
          IF tabOf(j) = tab /\ syncAcrossTabs
            THEN handleStorageChange(storedValue[j], keyOf(j),
                                     Head(storageEvents[tab]))
            ELSE storedValue[j]]
  /\ storageEvents' = [storageEvents EXCEPT ![tab] = Tail(@)]
  /\ UNCHANGED << now, navOnline, serverUp, dbComments, lsPending, ret,
                  hookVars, restVars, visitVars, ls, storageFull, errorCalls >>

\* the quota of the origin is used up, or space is freed again
storageFills ==
  /\ ~storageFull
  /\ storageFull' = TRUE
  /\ UNCHANGED << now, navOnline, serverUp, dbComments, lsPending, ret,
                  hookVars, restVars, visitVars, ls, storedValue, storageEvents,
                  errorCalls >>

storageFrees ==
  /\ storageFull
  /\ storageFull' = FALSE
  /\ UNCHANGED << now, navOnline, serverUp, dbComments, lsPending, ret,
                  hookVars, restVars, visitVars, ls, storedValue, storageEvents,
                  errorCalls >>

\* ------------------------------------------------------------------------
\* hooks/useDebounce.js: useDebounce(value, delay, {leading, trailing, maxWait})
\* ------------------------------------------------------------------------
DEFAULT_DELAY == 300

\* the granularity of the clock while useDebounce is watched
DEBOUNCE_STEP == DEFAULT_DELAY \div 3

\* options leading and trailing, at their defaults
leading == FALSE
trailing == TRUE

\* the values, delays and maxWait options the renders hand in
DebounceInputs == {"a", "b", "c"}
Delays == {200, DEFAULT_DELAY}
MaxWaits == {200, 500}

NoTimer == << >>

\* setTimeout(() => setDebouncedValue(value), ms), armed at time t
debounceTimer(val, ms, t) == [due |-> t + ms, value |-> val]

\* a timer that is armed and due
isDue(timer) == timer # NoTimer /\ timer.due <= now

\* A render with new arguments, once the timers that are due have run: the
\* cleanup the last run of the effect returned clears both timers and leaves
\* the refs as they are, then the effect runs.
render(val, delay, maxWait) ==
  LET cleanedTimeout == IF effectCleanup /\ timeoutRef THEN NoTimer
                                                       ELSE timeoutTimer
      cleanedMax == IF effectCleanup /\ maxTimeoutRef THEN NoTimer
                                                      ELSE maxTimer
      invokeLeading == leading /\ ~hasInvokedRef
      armMax == maxWait > 0 /\ ~maxTimeoutRef
  IN
  /\ << val, delay, maxWait >>
       # << debounceValue, debounceDelay, debounceMaxWait >>
  /\ ~isDue(timeoutTimer) /\ ~isDue(maxTimer)
  /\ debounceValue' = val
  /\ debounceDelay' = delay
  /\ debounceMaxWait' = maxWait
  /\ changedAt' = IF val # debounceValue THEN now ELSE changedAt
  /\ pendingSince' = IF val # debounceValue /\ pendingSince = -1
                       THEN now ELSE pendingSince
  /\ IF previousValueRef = val THEN
       \* the value did not change: the effect returns at once, without a
       \* cleanup
       /\ timeoutTimer' = cleanedTimeout
       /\ maxTimer' = cleanedMax
       /\ effectCleanup' = FALSE
       /\ UNCHANGED << debouncedValue, previousValueRef, timeoutRef,
                       maxTimeoutRef, hasInvokedRef >>
     ELSE
       /\ debouncedValue' = IF invokeLeading THEN val ELSE debouncedValue
       /\ hasInvokedRef' = (hasInvokedRef \/ invokeLeading)
       /\ timeoutRef' = (timeoutRef \/ trailing)
       /\ timeoutTimer' = IF trailing THEN debounceTimer(val, delay, now)
                                      ELSE NoTimer
       /\ maxTimeoutRef' = (maxTimeoutRef \/ armMax)
       /\ maxTimer' = IF armMax THEN debounceTimer(val, maxWait, now)
                                ELSE NoTimer
       /\ previousValueRef' = val
       /\ effectCleanup' = TRUE
  /\ UNCHANGED << now, notDebounce >>

changeValue(val) == render(val, debounceDelay, debounceMaxWait)

changeDelay(delay) == render(debounceValue, delay, debounceMaxWait)

\* maxWait is given while nothing waits to be delivered
changeMaxWait(maxWait) ==
  /\ timeoutTimer = NoTimer /\ maxTimer = NoTimer
  /\ debouncedValue = debounceValue
  /\ render(debounceValue, debounceDelay, maxWait)

\* the callback of the timer of timeoutRef
timeoutFires ==
  /\ isDue(timeoutTimer)
  /\ debouncedValue' = timeoutTimer.value
  /\ hasInvokedRef' = FALSE
  /\ timeoutTimer' = NoTimer
  /\ maxTimer' = IF maxTimeoutRef THEN NoTimer ELSE maxTimer
  /\ maxTimeoutRef' = FALSE
  /\ pendingSince' = -1
  /\ UNCHANGED << now, notDebounce, debounceValue, debounceDelay,
                  debounceMaxWait, previousValueRef, timeoutRef,
                  effectCleanup, changedAt >>

\* the callback of the timer of maxTimeoutRef
maxTimeoutFires ==
  /\ isDue(maxTimer)
  /\ debouncedValue' = maxTimer.value
  /\ hasInvokedRef' = FALSE
  /\ maxTimer' = NoTimer
  /\ timeoutTimer' = IF timeoutRef THEN NoTimer ELSE timeoutTimer
  /\ timeoutRef' = FALSE
  /\ pendingSince' = -1
  /\ UNCHANGED << now, notDebounce, debounceValue, debounceDelay,
                  debounceMaxWait, previousValueRef, maxTimeoutRef,
                  effectCleanup, changedAt >>

\* the clock advances; a timer runs as soon as it is due
timePasses ==
  /\ now < MaxClock
  /\ ~isDue(timeoutTimer) /\ ~isDue(maxTimer)
  /\ now' = now + DEBOUNCE_STEP
  /\ UNCHANGED << notDebounce, debounceVars >>

\* ------------------------------------------------------------------------
\* unnamed/part_000: useApi
\* ------------------------------------------------------------------------
cacheTime == 5 * 60 * 1000
retryDelay == 1000

\* a missing Map entry or property
undefined == << >>

\* the retry option of the callers, the retryCondition they pass, the
\* statuses of the failed responses
Retries == {0, MaxRetry}
RetryConditions == {"default", "custom"}
Statuses == {404, 500}

\* what the server answers with; 0 stands for any falsy body
ApiData == { <<"number", 0>>, <<"number", 1>> }

\* customOptions of the callers: a text body, or one of two FormData objects
ApiOptions == { [body |-> b] :
                  b \in { <<"string", <<"1">>>>, <<"FormData", 1>>,
                          <<"FormData", 2>> } }

\* JSON.stringify writes an object without own enumerable properties as {}
stringify(value) ==
  IF value[1] = "FormData" THEN <<"{", "}">> ELSE serialize(value)

\* JSON.stringify({ url, options }), for the url of the hook
getCacheKey(options) == <<"body", ":">> \o stringify(options.body)

CacheKeys == { getCacheKey(o) : o \in ApiOptions }

\* if (cachedData): the cached data counts as found
truthy(value) == value # null /\ value # <<"number", 0>>

\* cacheRef.current.get(cacheKey), when cache is on
cachedEntry(cacheKey) == IF cache THEN cacheRef[cacheKey] ELSE undefined

isExpired(cached) == now - cached.timestamp > cacheTime

getCachedData(cacheKey) ==
  LET cached == cachedEntry(cacheKey)
  IN  IF cached = undefined \/ isExpired(cached) THEN null ELSE cached.data

\* cacheRef after getCachedData: an expired entry is deleted
afterGetCachedData(cacheKey) ==
  LET cached == cachedEntry(cacheKey)
  IN  IF cached # undefined /\ isExpired(cached)
        THEN [cacheRef EXCEPT ![cacheKey] = undefined]
        ELSE cacheRef

\* cacheRef after setCachedData
setCachedData(cacheKey, responseData) ==
  IF cache
    THEN [cacheRef EXCEPT
            ![cacheKey] = [data |-> responseData, timestamp |-> now]]
    ELSE cacheRef

\* new Error(`HTTP ${response.status}: ...`): the status is part of the
\* message, and message is not an enumerable property
httpError(status) == [message |-> status]
OwnEnumerable(err) == (DOMAIN err) \ {"message", "stack"}

\* { ...err, url, options, attempt: attempt + 1, timestamp: Date.now() }
enhancedError(err, options, attempt) ==
  With([f \in OwnEnumerable(err) |-> err[f]],
       [options |-> options, attempt |-> attempt + 1, timestamp |-> now])

\* the default (error, attempt) => attempt < retry && error.status >= 500,
\* or the caller's (error, attempt) => attempt < retry
retryCondition(err, attempt) ==
  /\ attempt < retry
  /\ retryConditionOpt = "default"
       => "status" \in DOMAIN err /\ err.status >= 500

\* fetchData(undefined, customOptions, attempt): answers from the cache, or
\* sends the request and suspends at await fetch
fetchData(customOptions, attempt) ==
  LET cacheKey == getCacheKey(customOptions)
      cachedData == IF attempt = 0 THEN getCachedData(cacheKey) ELSE null
  IN  /\ cacheRef' = IF attempt = 0 THEN afterGetCachedData(cacheKey)
                                    ELSE cacheRef
      /\ storedFor' = [k \in CacheKeys |->
                         IF cacheRef'[k] = undefined THEN undefined
                                                     ELSE storedFor[k]]
      /\ retryTimeoutRef' = NoTimer
      /\ IF truthy(cachedData)
           THEN /\ apiData' = cachedData
                /\ apiLoading' = FALSE
                /\ apiError' = null
                /\ apiFetch' = NoTimer
                /\ attempts' = IF attempt = 0 THEN 0 ELSE attempts
           ELSE /\ apiFetch' = [options |-> customOptions,
                                attempt |-> attempt]
                /\ apiLoading' = TRUE
                /\ apiError' = IF attempt = 0 THEN null ELSE apiError
                /\ attempts' = (IF attempt = 0 THEN 0 ELSE attempts) + 1
                /\ UNCHANGED apiData
      /\ onErrorCalls' = IF attempt = 0 THEN 0 ELSE onErrorCalls

\* nothing of the hook is in flight or armed
apiIdle == apiFetch = NoTimer /\ retryTimeoutRef = NoTimer

\* a render with other options, between two calls
useApi(cacheOpt, retryOpt, conditionOpt) ==
  /\ apiIdle
  /\ << cacheOpt, retryOpt, conditionOpt >> # << cache, retry, retryConditionOpt >>
  /\ cache' = cacheOpt
  /\ retry' = retryOpt
  /\ retryConditionOpt' = conditionOpt
  /\ UNCHANGED << apiData, apiLoading, apiError, cacheRef, storedFor,
                  apiFetch, retryTimeoutRef, attempts, onErrorCalls >>
  /\ UNCHANGED << now, notApi >>

\* execute(undefined, customOptions), once the call before it has settled
execute(customOptions) ==
  /\ apiIdle
  /\ fetchData(customOptions, 0)
  /\ UNCHANGED << cache, retry, retryConditionOpt >>
  /\ UNCHANGED << now, notApi >>

\* await fetch resolves with an ok response carrying responseData
responseOk(responseData) ==
  LET cacheKey == getCacheKey(apiFetch.options)
  IN  /\ apiFetch # NoTimer
      /\ cacheRef' = setCachedData(cacheKey, responseData)
      /\ storedFor' = IF cache
                        THEN [storedFor EXCEPT ![cacheKey] = apiFetch.options]
                        ELSE storedFor
      /\ apiData' = responseData
      /\ apiError' = null
      /\ apiLoading' = FALSE
      /\ apiFetch' = NoTimer
      /\ UNCHANGED << cache, retry, retryConditionOpt, retryTimeoutRef,
                      attempts, onErrorCalls >>
      /\ UNCHANGED << now, notApi >>

\* await fetch resolves with a response that is not ok: the catch block
responseFails(status) ==
  LET err == enhancedError(httpError(status), apiFetch.options,
                           apiFetch.attempt)
  IN  /\ apiFetch # NoTimer
      /\ IF retryCondition(err, apiFetch.attempt)
           THEN /\ retryTimeoutRef' =
                     [due |-> now + retryDelay * 2 ^ apiFetch.attempt,
                      options |-> apiFetch.options,
                      attempt |-> apiFetch.attempt + 1]
                /\ UNCHANGED << apiError, apiData, onErrorCalls >>
           ELSE /\ apiError' = err
                /\ apiData' = null
                /\ onErrorCalls' = onErrorCalls + 1
                /\ UNCHANGED retryTimeoutRef
      /\ apiLoading' = FALSE
      /\ apiFetch' = NoTimer
      /\ UNCHANGED << cache, retry, retryConditionOpt, cacheRef, storedFor,
                      attempts >>
      /\ UNCHANGED << now, notApi >>

\* the timer of retryTimeoutRef runs fetchData(customUrl, customOptions,
\* attempt + 1)
retryTimeoutFires ==
  /\ isDue(retryTimeoutRef)
  /\ fetchData(retryTimeoutRef.options, retryTimeoutRef.attempt)
  /\ UNCHANGED << cache, retry, retryConditionOpt >>
  /\ UNCHANGED << now, notApi >>

\* the clock advances by retryDelay or by cacheTime, never past a timer
apiTimePasses(ms) ==
  /\ ms = retryDelay => (now % cacheTime) \div retryDelay < MaxApiSteps
  /\ ms = cacheTime => now \div cacheTime < MaxApiEpochs
  /\ retryTimeoutRef # NoTimer => now + ms <= retryTimeoutRef.due
  /\ now' = now + ms
  /\ UNCHANGED << apiVars, notApi >>

\* ------------------------------------------------------------------------
\* hooks/useComments_OLD.js
\* ------------------------------------------------------------------------
isDuplicateComment(newComment, existingComments, t) ==
  \E i \in 1..Len(existingComments) :
    /\ existingComments[i].email = newComment.email
    /\ trim(existingComments[i].message) = trim(newComment.message)
    /\ Abs(existingComments[i].date - t) < DUPLICATE_WINDOW

noError == <<>>
fetchTypeError == <<"hybridAPI.getComments is not a function">>
duplicateError == <<"Comentario similar ja foi enviado recentemente">>
offlineError == <<"Sem conexao com a internet">>

RemoveAt(s, k) == SubSeq(s, 1, k - 1) \o SubSeq(s, k + 1, Len(s))

onlyApproved(cs) == SelectSeq(cs, LAMBDA c : c.approved)

\* a retry timer whose delay doubles
retryTimerBackoff(t) ==
  [kind |-> "retry", due |-> t + 2 * RETRY_DELAY, online |-> TRUE]

retryTimer(t) == [kind |-> "retry", due |-> t + RETRY_DELAY, online |-> TRUE]

onlineTimer(t) == [kind |-> "online", due |-> t + ONLINE_DEBOUNCE, online |-> mountOnline]

Init ==
  /\ now = 0
  /\ navOnline \in BOOLEAN
  /\ serverUp \in BOOLEAN
  /\ enableOffline \in BOOLEAN
  /\ dbComments = <<>>
  /\ lsPending = <<>>
  /\ mountOnline = navOnline
  /\ isOnline = navOnline
  /\ comments = <<>>
  /\ pendingComments = <<>>
  /\ isLoading = FALSE
  /\ isSubmitting = FALSE
  /\ error = fetchTypeError
  /\ pendingRetryRef = FALSE
  /\ timers = <<>>
  /\ runs = <<>>
  /\ adds = <<>>
  /\ ret = Ret("mount", <<>>)
  /\ nextUid = 1
  /\ sent = [u \in 1..MaxAccepted |-> 0]
  /\ sinceOnline = FALSE
  /\ dbVisits = initialVisits
  /\ lsVisits = NoItem
  /\ ls = [k \in Keys |-> NoItem]
  /\ storedValue = [i \in Instances |-> initialValue]
  /\ storageEvents = [t \in Tabs |-> << >>]
  /\ storageFull = FALSE
  /\ errorCalls = << >>
  /\ debounceValue = "a"
  /\ debounceDelay = DEFAULT_DELAY
  /\ debounceMaxWait = 0
  /\ debouncedValue = "a"
  /\ previousValueRef = "a"
  /\ timeoutRef = FALSE
  /\ maxTimeoutRef = FALSE
  /\ hasInvokedRef = FALSE
  /\ timeoutTimer = NoTimer
  /\ maxTimer = NoTimer
  /\ effectCleanup = FALSE
  /\ changedAt = 0
  /\ pendingSince = -1
  /\ cache = FALSE
  /\ retry = 0
  /\ retryConditionOpt = "default"
  /\ apiData = null
  /\ apiLoading = FALSE
  /\ apiError = null
  /\ cacheRef = [k \in CacheKeys |-> undefined]
  /\ storedFor = [k \in CacheKeys |-> undefined]
  /\ apiFetch = NoTimer
  /\ retryTimeoutRef = NoTimer
  /\ attempts = 0
  /\ onErrorCalls = 0
  /\ dbVotes = initialVotes
  /\ voteRequests = << >>
  /\ visitsServed = 0
  /\ hasIncremented = FALSE
  /\ counterVisits = [total |-> 0, coverPage |-> 0, daily |-> << >>]
  /\ increments = << >>
  /\ requestsSent = 0
  /\ initializing = TRUE
  /\ autoTimer = FALSE
  /\ fetches = 0
  /\ ucSortBy = "newest"
  /\ ucComments = << >>
  /\ ucLoading = TRUE
  /\ ucError = noError
  /\ ucHasMore = TRUE
  /\ ucPage = 1
  /\ ucLocalComments = << >>
  /\ ucLoads = [k \in 1..2 |->
                  [pageNum |-> 1, resetComments |-> TRUE, sortBy |-> "newest",
                   localComments |-> << >>]]
  /\ ucLikes = << >>
  /\ ucToggles = 0

\* time passes: a millisecond, or 5 minutes
Tick(d) ==
  /\ d = 1 => now % RETRY_DELAY < MaxMs
  /\ d = RETRY_DELAY => now \div RETRY_DELAY < MaxEpochs
  /\ now' = now + d
  /\ UNCHANGED << navOnline, serverUp, dbComments, lsPending, enableOffline,
                  mountOnline, comments, pendingComments, isLoading,
                  isSubmitting, error, isOnline, pendingRetryRef, timers, runs,
                  adds, ret, nextUid, sent, sinceOnline >>
  /\ UNCHANGED << visitVars, tabVars, restVars >>

ServerDown ==
  /\ serverUp
  /\ serverUp' = FALSE
  /\ sinceOnline' = FALSE
  /\ UNCHANGED << now, navOnline, dbComments, lsPending, enableOffline,
                  mountOnline, comments, pendingComments, isLoading,
                  isSubmitting, error, isOnline, pendingRetryRef, timers, runs,
                  adds, ret, nextUid, sent >>
  /\ UNCHANGED << visitVars, tabVars, restVars >>

ServerBack ==
  /\ ~serverUp
  /\ serverUp' = TRUE
  /\ UNCHANGED << now, navOnline, dbComments, lsPending, enableOffline,
                  mountOnline, comments, pendingComments, isLoading,
                  isSubmitting, error, isOnline, pendingRetryRef, timers, runs,
                  adds, ret, nextUid, sent, sinceOnline >>
  /\ UNCHANGED << visitVars, tabVars, restVars >>

\* window 'offline' event
handleOffline ==
  /\ navOnline
  /\ navOnline' = FALSE
  /\ isOnline' = FALSE
  /\ sinceOnline' = FALSE
  /\ UNCHANGED << now, serverUp, dbComments, lsPending, enableOffline,
                  mountOnline, comments, pendingComments, isLoading,
                  isSubmitting, error, pendingRetryRef, timers, runs, adds,
                  ret, nextUid, sent >>
  /\ UNCHANGED << visitVars, tabVars, restVars >>

\* window 'online' event: the handler of the first render, which arms the
\* 3 s timer around the first render's retryPendingComments
handleOnline ==
  /\ ~navOnline
  /\ Len(timers) < MaxTimers
  /\ navOnline' = TRUE
  /\ isOnline' = TRUE
  /\ timers' = Append(timers, onlineTimer(now))
  /\ sinceOnline' = serverUp
  /\ UNCHANGED << now, serverUp, dbComments, lsPending, enableOffline,
                  mountOnline, comments, pendingComments, isLoading,
                  isSubmitting, error, pendingRetryRef, runs, adds, ret,
                  nextUid, sent >>
  /\ UNCHANGED << visitVars, tabVars, restVars >>

\* hybridAPI has no getComments: the call throws a TypeError before any
\* request is made, the catch sets error and the finally clears isLoading
fetchComments ==
  /\ "getComments" \notin hybridAPIMethods
  /\ isLoading' = FALSE
  /\ error' = fetchTypeError
  /\ ret' = Ret("fetchComments", <<>>)
  /\ UNCHANGED << now, navOnline, serverUp, dbComments, lsPending,
                  enableOffline, mountOnline, comments, pendingComments,
                  isSubmitting, isOnline, pendingRetryRef, timers, runs, adds,
                  nextUid, sent, sinceOnline >>
  /\ UNCHANGED << visitVars, tabVars, restVars >>

\* const validationErrors = validateComment(commentData), per input
validationErrors == [i \in CommentInputs |-> validateComment(Inputs[i])]

\* the object addComment builds before sending or queueing; uid is the
\* model's tag of the accepted comment, carried along by every later copy
buildComment(commentData, t) ==
  With(commentData, [id |-> <<"temp", t>>, date |-> t, approved |-> FALSE,
                     attempts |-> 0, uid |-> nextUid])

addResult(ok, msg, cmt, pend) ==
  [success |-> ok, message |-> msg, comment |-> cmt, pending |-> pend]

\* addComment(Inputs[input]) up to its await (online) or to its return
\* (everything else)
addComment(input) ==
  LET commentData == Inputs[input]
      errs == validationErrors[input]
      dup == isDuplicateComment(commentData, comments, now)
      accepted == errs = <<>> /\ ~dup /\ (isOnline \/ enableOffline)
      newComment == buildComment(commentData, now)
  IN
  /\ accepted => nextUid <= MaxAccepted
  /\ (accepted /\ isOnline) => Len(adds) < MaxAdds
  /\ (accepted /\ ~isOnline) => Len(lsPending) < MaxPending
  /\ sinceOnline' = FALSE
  /\ IF errs # <<>> THEN
       /\ error' = errs
       /\ isSubmitting' = FALSE
       /\ ret' = Ret("addComment", addResult(FALSE, errs, <<>>, FALSE))
       /\ UNCHANGED << lsPending, pendingComments, adds, nextUid >>
     ELSE IF dup THEN
       /\ error' = duplicateError
       /\ isSubmitting' = FALSE
       /\ ret' = Ret("addComment", addResult(FALSE, duplicateError, <<>>, FALSE))
       /\ UNCHANGED << lsPending, pendingComments, adds, nextUid >>
     ELSE IF isOnline THEN
       /\ error' = noError
       /\ isSubmitting' = TRUE
       /\ adds' = Append(adds, newComment)
       /\ nextUid' = nextUid + 1
       /\ UNCHANGED << lsPending, pendingComments, ret >>
     ELSE IF enableOffline THEN
       /\ error' = noError
       /\ isSubmitting' = FALSE
       /\ lsPending' = addPending(lsPending, newComment, now)
       /\ pendingComments' = Append(pendingComments, newComment)
       /\ nextUid' = nextUid + 1
       /\ ret' = Ret("addComment",
                     addResult(TRUE, <<"Comentario salvo offline">>,
                               <<newComment>>, TRUE))
       /\ UNCHANGED adds
     ELSE
       /\ error' = offlineError
       /\ isSubmitting' = FALSE
       /\ ret' = Ret("addComment", addResult(FALSE, offlineError, <<>>, FALSE))
       /\ UNCHANGED << lsPending, pendingComments, adds, nextUid >>
  /\ UNCHANGED << now, navOnline, serverUp, dbComments, enableOffline,
                  mountOnline, comments, isLoading, isOnline, pendingRetryRef,
                  timers, runs, sent >>
  /\ UNCHANGED << visitVars, tabVars, restVars >>

\* hybridAPI.addComment settles for the k-th waiting addComment: the server's
\* answer, or the copy hybridAPI itself put on 'pendingComments'; it never
\* rejects, so the catch (serverError) of addComment does not run
addCommentSettles(k) ==
  LET newComment == adds[k]
      ok == requestOk(newComment)
      stored == postComment(dbComments, newComment, now)
      local == hybridFallback(lsPending, newComment, now)
  IN
  /\ k \in 1..Len(adds)
  /\ ok => Len(dbComments) < MaxDb
  /\ ~ok => Len(lsPending) < MaxPending
  /\ adds' = RemoveAt(adds, k)
  /\ isSubmitting' = FALSE
  /\ IF ok THEN
       /\ dbComments' = Append(dbComments, stored)
       /\ comments' = <<stored>> \o comments
       /\ ret' = Ret("addComment",
                     addResult(TRUE, <<"Comentario adicionado com sucesso!">>,
                               <<stored>>, FALSE))
       /\ UNCHANGED lsPending
     ELSE
       /\ lsPending' = local
       /\ ret' = Ret("addComment",
                     addResult(TRUE, <<"Comentario enviado e aguarda aprovacao.">>,
                               <<local[Len(local)]>>, FALSE))
       /\ UNCHANGED << dbComments, comments >>
  /\ UNCHANGED << now, navOnline, serverUp, enableOffline, mountOnline,
                  pendingComments, isLoading, error, isOnline, pendingRetryRef,
                  timers, runs, nextUid, sent, sinceOnline >>
  /\ UNCHANGED << visitVars, tabVars, restVars >>

\* ------------------------------------------------------------------------
\* retryPendingComments
\* ------------------------------------------------------------------------
retryResult(ok, ko, processed) ==
  [successful |-> ok, failed |-> ko, processed |-> processed]

\* the loop skips (and counts as failed) the comments whose attempts have
\* reached maxRetries: the position of the next comment it submits
nextToSubmit(cur, i) ==
  LET S == {j \in i..Len(cur) : cur[j].attempts < maxRetries}
  IN  IF S = {} THEN Len(cur) + 1 ELSE SetMin(S)

\* The run from position i of its snapshot cur up to its next await or to its
\* return. rest: the other suspended runs; store: 'pendingComments' as it is
\* now; flag: pendingRetryRef while the run goes on.
runFrom(rest, cur, i, succ, failed, store, timersBase, flag) ==
  LET j == nextToSubmit(cur, i)
      ko == failed + (j - i)
  IN
  IF j <= Len(cur) THEN
    /\ sent[cur[j].uid] < MaxSent
    /\ sent' = [sent EXCEPT ![cur[j].uid] = @ + 1]
    /\ lsPending' = incrementAttempts(store, cur[j].id, now)
    /\ runs' = Append(rest, [cur |-> cur, i |-> j, succ |-> succ, failed |-> ko])
    /\ pendingRetryRef' = flag
    /\ timers' = timersBase
    /\ UNCHANGED << comments, pendingComments, ret >>
  ELSE
    /\ Len(store) > 0 => Len(timersBase) < MaxTimers
    /\ lsPending' = store
    /\ comments' = IF Len(succ) > 0 THEN onlyApproved(succ) \o comments
                                    ELSE comments
    /\ pendingComments' = store
    /\ timers' = IF Len(store) > 0 THEN Append(timersBase, retryTimer(now))
                                   ELSE timersBase
    /\ pendingRetryRef' = FALSE
    /\ runs' = rest
    /\ ret' = Ret("retryPendingComments", retryResult(Len(succ), ko, TRUE))
    /\ UNCHANGED sent

\* a call of retryPendingComments; online: the isOnline its closure holds;
\* flag: pendingRetryRef as the call finds it
retryPendingComments(timersBase, flag, online) ==
  IF flag \/ ~online \/ Len(lsPending) = 0 THEN
    /\ ret' = Ret("retryPendingComments", retryResult(0, 0, FALSE))
    /\ pendingRetryRef' = flag
    /\ timers' = timersBase
    /\ UNCHANGED << lsPending, comments, pendingComments, runs, sent >>
  ELSE
    runFrom(runs, lsPending, 1, <<>>, 0, lsPending, timersBase, TRUE)

\* the retry button: the retryPendingComments of the current render
manualRetry ==
  /\ Len(runs) < MaxRuns
  /\ retryPendingComments(timers, pendingRetryRef, isOnline)
  /\ sinceOnline' = FALSE
  /\ UNCHANGED << now, navOnline, serverUp, dbComments, enableOffline,
                  mountOnline, isLoading, isSubmitting, error, isOnline, adds,
                  nextUid >>
  /\ UNCHANGED << visitVars, tabVars, restVars >>

\* a timer runs its callback, at or after its due time
timerFires(k) ==
  /\ k \in 1..Len(timers)
  /\ timers[k].due <= now
  /\ Len(runs) < MaxRuns
  /\ IF timers[k].kind = "online" THEN
       IF Len(lsPending) > 0
         THEN retryPendingComments(RemoveAt(timers, k), pendingRetryRef,
                                   timers[k].online)
         ELSE /\ timers' = RemoveAt(timers, k)
              /\ UNCHANGED << lsPending, comments, pendingComments, runs, sent,
                              pendingRetryRef, ret >>
     ELSE
       \* pendingRetryRef.current = false; retryPendingComments()
       retryPendingComments(RemoveAt(timers, k), FALSE, timers[k].online)
  /\ UNCHANGED << now, navOnline, serverUp, dbComments, enableOffline,
                  mountOnline, isLoading, isSubmitting, error, isOnline, adds,
                  nextUid, sinceOnline >>
  /\ UNCHANGED << visitVars, tabVars, restVars >>

\* hybridAPI.addComment settles for the k-th suspended run; the run removes
\* the comment it submitted and goes on to its next await or to its return
retrySettles(k) ==
  LET run == runs[k]
      comment == run.cur[run.i]
      ok == requestOk(comment)
      stored == postComment(dbComments, comment, now)
      local == hybridFallback(lsPending, comment, now)
      result == IF ok THEN stored ELSE local[Len(local)]
      store == removePending(IF ok THEN lsPending ELSE local, comment.id)
  IN
  /\ k \in 1..Len(runs)
  /\ ok => Len(dbComments) < MaxDb
  /\ Len(store) <= MaxPending
  /\ dbComments' = IF ok THEN Append(dbComments, stored) ELSE dbComments
  /\ runFrom(RemoveAt(runs, k), run.cur, run.i + 1, Append(run.succ, result),
             run.failed, store, timers, pendingRetryRef)
  /\ UNCHANGED << now, navOnline, serverUp, enableOffline, mountOnline,
                  isLoading, isSubmitting, error, isOnline, adds, nextUid,
                  sinceOnline >>
  /\ UNCHANGED << visitVars, tabVars, restVars >>

\* what the browser, the server and the clock do
Environment ==
  \/ \E d \in {1, RETRY_DELAY} : Tick(d)
  \/ ServerDown
  \/ ServerBack
  \/ handleOffline
  \/ handleOnline

\* The hook with its retry machinery; addComment accepts MaxQueued comments.
Next ==
  \/ Environment
  \/ fetchComments
  \/ \E c \in CommentInputs : nextUid <= MaxQueued /\ addComment(c)
  \/ \E k \in 1..MaxAdds : addCommentSettles(k)
  \/ manualRetry
  \/ \E k \in 1..MaxTimers : timerFires(k)
  \/ \E k \in 1..MaxRuns : retrySettles(k)

Spec == Init /\ [][Next]_vars

\* The submission path alone, for MaxAccepted accepted comments: no retry
\* run starts, and the timers armed by 'online' events stay armed.
NextSubmit ==
  \/ Environment
  \/ \E c \in ValidInputs \cup {4} : addComment(c)
  \/ \E k \in 1..MaxAdds : addCommentSettles(k)

SpecSubmit == Init /\ [][NextSubmit]_vars

\* The submission path with every input: once MaxQueued comments have been
\* accepted, the callers go on with the inputs that fail validation.
NextValidate ==
  \/ Environment
  \/ fetchComments
  \/ \E c \in CommentInputs :
        (nextUid > MaxQueued => c \in InvalidInputs) /\ addComment(c)
  \/ \E k \in 1..MaxAdds : addCommentSettles(k)

SpecValidate == Init /\ [][NextValidate]_vars

\* hybridAPI called directly, with the server coming and going
NextHybrid ==
  \/ \E d \in {1, RETRY_DELAY} : Tick(d)
  \/ ServerDown
  \/ ServerBack
  \/ \E page \in Pages : hybridIncrementVisit(page)
  \/ hybridGetVisits
  \/ \E commentData \in ApiBodies : hybridAddComment(commentData)

SpecHybrid == Init /\ [][NextHybrid]_vars

\* The useLocalStorage instances of two tabs
NextTabs ==
  \/ \E i \in Instances, value \in Values : setValue(i, value)
  \/ \E i \in Instances : removeValue(i)
  \/ \E tab \in Tabs : clear(tab)
  \/ \E tab \in Tabs : storageEvent(tab)

SpecTabs == Init /\ [][NextTabs]_vars

\* The instances of one key with every kind of value, and a storage that
\* may be full
NextStore ==
  \/ \E i \in Instances \ {"b2"}, value \in AnyValues : setValue(i, value)
  \/ \E i \in Instances \ {"b2"} : removeValue(i)
  \/ \E tab \in Tabs : storageEvent(tab)
  \/ storageFills
  \/ storageFrees

SpecStore == Init /\ [][NextStore]_vars

\* useDebounce with its default options; the delay may change
NextDebounce ==
  \/ \E val \in DebounceInputs : changeValue(val)
  \/ \E delay \in Delays : changeDelay(delay)
  \/ timeoutFires
  \/ timePasses

SpecDebounce == Init /\ [][NextDebounce]_vars

\* useDebounce with maxWait
NextMaxWait ==
  \/ \E val \in DebounceInputs : changeValue(val)
  \/ \E maxWait \in MaxWaits : changeMaxWait(maxWait)
  \/ timeoutFires
  \/ maxTimeoutFires
  \/ timePasses

SpecMaxWait == Init /\ [][NextMaxWait]_vars

\* ------------------------------------------------------------------------
\* backend/server.js: the handlers of POST /api/votes and their requests
\* ------------------------------------------------------------------------
\* readDB and writeDB succeed, or fs.readJson or fs.writeJson throws
DiskOutcomes == {"ok", "readFails", "writeFails"}

msPerDay == 24 * 60 * 60 * 1000

\* res.status(status).json(body)
response(status, body) == [status |-> status, body |-> body]

\* POST /api/votes up to await readDB(): 400, or the request is suspended
postVotes(coverId) ==
  /\ Len(voteRequests) < MaxVoteRequests
  /\ IF coverId = "" \/ coverId \notin Covers
       THEN /\ ret' = Ret("POST /api/votes", response(400, [error |-> "ID de capa inválido"]))
            /\ UNCHANGED voteRequests
       ELSE /\ dbVotes[coverId] < initialVotes[coverId] + MaxVotes
            /\ voteRequests' = Append(voteRequests,
                                      [coverId |-> coverId, data |-> NoItem])
            /\ UNCHANGED ret
  /\ UNCHANGED << now, dbComments, dbVisits, dbVotes, visitsServed, notServer >>

\* readDB() resolves for request k: data.votes[coverId] += 1, then the
\* request is suspended at await writeDB(data)
votesReadDB(k, disk) ==
  /\ k \in 1..Len(voteRequests)
  /\ voteRequests[k].data = NoItem
  /\ disk # "writeFails"
  /\ IF disk = "readFails"
       THEN /\ ret' = Ret("POST /api/votes",
                          response(500, [error |-> "Erro ao acessar banco de dados"]))
            /\ voteRequests' = RemoveAt(voteRequests, k)
       ELSE /\ voteRequests' =
                 [voteRequests EXCEPT
                    ![k].data =
                       [visits |-> dbVisits, comments |-> dbComments,
                        votes |-> [dbVotes EXCEPT
                                     ![voteRequests[k].coverId] = @ + 1]]]
            /\ UNCHANGED ret
  /\ UNCHANGED << now, dbComments, dbVisits, dbVotes, visitsServed, notServer >>

\* writeDB(data) resolves for request k: the file now holds data
votesWriteDB(k, disk) ==
  /\ k \in 1..Len(voteRequests)
  /\ voteRequests[k].data # NoItem
  /\ disk # "readFails"
  /\ IF disk = "writeFails"
       THEN /\ ret' = Ret("POST /api/votes",
                          response(500, [error |-> "Erro ao salvar voto"]))
            /\ UNCHANGED << dbComments, dbVisits, dbVotes >>
       ELSE /\ ret' = Ret("POST /api/votes",
                          response(200, [success |-> TRUE,
                                         votes |-> voteRequests[k].data.votes]))
            /\ dbVotes' = voteRequests[k].data.votes
            /\ dbVisits' = voteRequests[k].data.visits
            /\ dbComments' = voteRequests[k].data.comments
  /\ voteRequests' = RemoveAt(voteRequests, k)
  /\ UNCHANGED << now, visitsServed, notServer >>

\* POST /api/visits/increment, from the request to the response, while no
\* other request is being handled
postVisits(page, disk) ==
  /\ voteRequests = << >>
  /\ visitsServed < MaxServed
  /\ IF disk = "ok"
       THEN /\ dbVisits' = postVisitsIncrement(dbVisits, page, now)
            /\ visitsServed' = visitsServed + 1
            /\ ret' = Ret("POST /api/visits/increment",
                          response(200, [success |-> TRUE, visits |-> dbVisits']))
       ELSE /\ ret' = Ret("POST /api/visits/increment",
                          response(500, [error |-> disk]))
            /\ UNCHANGED << dbVisits, visitsServed >>
  /\ UNCHANGED << now, dbComments, dbVotes, voteRequests, notServer >>

\* midnight (UTC) passes
dayPasses ==
  /\ today(now) < MaxDays
  /\ now' = now + msPerDay
  /\ UNCHANGED << dbComments, dbVisits, ret, serverVars, notServer >>

\* the server handling POST /api/votes requests, several at a time
NextVotes ==
  \/ \E c \in CoverIds : postVotes(c)
  \/ \E k \in 1..MaxVoteRequests, disk \in DiskOutcomes : votesReadDB(k, disk)
  \/ \E k \in 1..MaxVoteRequests, disk \in DiskOutcomes : votesWriteDB(k, disk)

SpecVotes == Init /\ [][NextVotes]_vars

\* the server handling POST /api/visits/increment requests one after the other
NextVisits ==
  \/ \E page \in Pages, disk \in DiskOutcomes : postVisits(page, disk)
  \/ dayPasses

SpecVisits == Init /\ [][NextVisits]_vars

\* ------------------------------------------------------------------------
\* hooks/useCounter.js: one mounted instance with its default options
\* ------------------------------------------------------------------------
autoIncrement == TRUE
enableLocalFallback == TRUE

\* the pages the callers count
CounterPages == {"total", "cover"}

\* incrementVisit, had it left the flag as it was
markIncrementedSkipped(flag) == flag

\* hasIncremented.current = true, before the request is sent
markIncremented(flag) == TRUE

\* setVisits(prev => ({ ...prev, [key]: prev[key] + 1 })), the key being
\* 'total' for the page 'total' and 'coverPage' for any other page
bumpLocally(prev, targetPage) ==
  IF targetPage = "total" THEN [prev EXCEPT !.total = @ + 1]
                          ELSE [prev EXCEPT !.coverPage = @ + 1]

\* what hybridAPI.getVisits() resolves with
gotVisits == IF serverReachable THEN dbVisits ELSE parseVisits(lsVisits)

\* fetchVisits after its await: setVisits, then visitStorage.sync(data)
fetchVisitsSettles ==
  /\ counterVisits' = With(counterVisits, gotVisits)
  /\ lsVisits' = IF enableLocalFallback THEN gotVisits ELSE lsVisits

\* initializeCounter after await fetchVisits(): arms the timer of the
\* automatic increment
initializeCounter ==
  /\ initializing
  /\ initializing' = FALSE
  /\ fetchVisitsSettles
  /\ autoTimer' = (autoIncrement /\ ~hasIncremented)
  /\ ret' = Ret("initializeCounter", << >>)
  /\ UNCHANGED << hasIncremented, increments, requestsSent, fetches,
                  dbVisits, notCounter >>

\* incrementVisit(targetPage) up to await hybridAPI.incrementVisit
incrementVisitCalled(targetPage) ==
  IF hasIncremented
    THEN /\ ret' = Ret("incrementVisit", << >>)
         /\ UNCHANGED << hasIncremented, counterVisits, increments,
                         requestsSent >>
    ELSE /\ Len(increments) + parseVisits(lsVisits).total
              + parseVisits(lsVisits).coverPage < MaxVisits
         /\ hasIncremented' = markIncremented(hasIncremented)
         /\ counterVisits' = bumpLocally(counterVisits, targetPage)
         /\ increments' = Append(increments, targetPage)
         /\ requestsSent' = requestsSent + 1
         /\ UNCHANGED ret

\* a caller calls incrementVisit(targetPage)
incrementVisit(targetPage) ==
  /\ incrementVisitCalled(targetPage)
  /\ UNCHANGED << initializing, autoTimer, fetches, dbVisits, lsVisits,
                  notCounter >>

\* the timer of initializeCounter: if (isMounted && !hasIncremented.current)
\* incrementVisit()
autoIncrementFires ==
  /\ autoTimer
  /\ autoTimer' = FALSE
  /\ IF hasIncremented
       THEN UNCHANGED << hasIncremented, counterVisits, increments,
                         requestsSent, ret >>
       ELSE incrementVisitCalled("total")
  /\ UNCHANGED << initializing, fetches, dbVisits, lsVisits, notCounter >>

\* hybridAPI.incrementVisit settles for the oldest call and incrementVisit
\* runs to its end; hybridAPI does not reject, so the catch block is not
\* reached
incrementVisitSettles ==
  LET targetPage == Head(increments)
      stored == postVisitsIncrement(dbVisits, targetPage, now)
      localVisits == bumpVisits(parseVisits(lsVisits), targetPage)
      result == IF serverReachable
                  THEN [success |-> TRUE, visits |-> stored]
                  ELSE [success |-> TRUE, visits |-> localVisits]
  IN  /\ increments # << >>
      /\ increments' = Tail(increments)
      /\ dbVisits' = IF serverReachable THEN stored ELSE dbVisits
      /\ lsVisits' = localVisits
      /\ counterVisits' = With(counterVisits, result.visits)
      /\ ret' = Ret("incrementVisit", result)
      /\ UNCHANGED << hasIncremented, initializing, autoTimer, requestsSent, fetches,
                      notCounter >>

\* resetIncrementFlag()
resetIncrementFlag ==
  /\ hasIncremented
  /\ hasIncremented' = FALSE
  /\ requestsSent' = 0
  /\ UNCHANGED << counterVisits, increments, initializing, autoTimer, fetches,
                  dbVisits, lsVisits, ret, notCounter >>

\* reload(): resets the flag and calls fetchVisits()
reload ==
  /\ fetches < MaxFetches
  /\ fetches' = fetches + 1
  /\ hasIncremented' = FALSE
  /\ requestsSent' = 0
  /\ UNCHANGED << counterVisits, increments, initializing, autoTimer,
                  dbVisits, lsVisits, ret, notCounter >>

\* a fetchVisits call of reload runs to its end
fetchVisits ==
  /\ fetches > 0
  /\ fetches' = fetches - 1
  /\ fetchVisitsSettles
  /\ ret' = Ret("fetchVisits", gotVisits)
  /\ UNCHANGED << hasIncremented, increments, requestsSent, initializing,
                  autoTimer, dbVisits, notCounter >>

\* ------------------------------------------------------------------------
\* hooks/useComments.js: the current hook, with its simulated api
\* ------------------------------------------------------------------------
pageSize == MaxPageSize
SortOrders == {"newest", "popular"}

\* ids of the comments Array.from generates, after the three literal ones
GeneratedIds == 4..(3 + MaxGenerated)

\* what Math.random() gives a generated comment, its likes and isLiked: two
\* of the draws
RandomLikes == { <<0, FALSE>>, <<19, TRUE>> }

connectionError == <<"Erro de conexão com o servidor">>
likeError == <<"Falha ao curtir comentário.">>

\* allComments of api.fetchComments; age is the hours before Date.now()
allComments(random) ==
  << [id |-> 1, age |-> 1, likes |-> 12, isLiked |-> FALSE],
     [id |-> 2, age |-> 2, likes |-> 8, isLiked |-> TRUE],
     [id |-> 3, age |-> 3, likes |-> 15, isLiked |-> FALSE] >>
  \o [i \in 1..MaxGenerated |->
        [id |-> i + 3, age |-> i + 3, likes |-> random[i + 3][1],
         isLiked |-> random[i + 3][2]]]

\* the comparator of filteredComments.sort puts a before b
sortsBefore(a, b, order) ==
  IF order = "popular" THEN a.likes > b.likes
  ELSE IF order = "oldest" THEN a.age > b.age
  ELSE a.age < b.age

RECURSIVE insertSorted(_, _, _)
insertSorted(sorted, c, order) ==
  IF sorted = << >> THEN << c >>
  ELSE IF sortsBefore(c, Head(sorted), order) THEN << c >> \o sorted
  ELSE << Head(sorted) >> \o insertSorted(Tail(sorted), c, order)

\* Array.prototype.sort with that comparator (stable)
RECURSIVE sortComments(_, _)
sortComments(list, order) ==
  IF list = << >> THEN << >>
  ELSE insertSorted(sortComments(SubSeq(list, 1, Len(list) - 1), order),
                    list[Len(list)], order)

\* Array.prototype.slice(start, end)
slice(list, start, end) ==
  SubSeq(list, SetMin({start, Len(list)}) + 1, SetMin({end, Len(list)}))

\* what api.fetchComments(pageNum, '') resolves with
apiFetchComments(pageNum, order, random) ==
  LET filteredComments == sortComments(allComments(random), order)
      start == (pageNum - 1) * pageSize
      end == start + pageSize
  IN  [comments |-> slice(filteredComments, start, end),
       hasMore |-> end < Len(filteredComments)]

\* the updater for a further page, had it appended the page as it is
appendPageUnfiltered(prevComments, page) == prevComments \o page

\* the updater of loadComments for a further page: skips the ids it has
appendPage(prevComments, page) ==
  LET existingIds == { prevComments[i].id : i \in DOMAIN prevComments }
  IN  prevComments \o SelectSeq(page, LAMBDA c : c.id \notin existingIds)

\* loadComments(pageNum, resetComments) up to await api.fetchComments
loadCommentsCalled(pageNum, resetComments, order) ==
  /\ Len(ucLoads) < MaxLoads
  /\ ucLoading' = TRUE
  /\ ucError' = noError
  /\ ucLoads' = Append(ucLoads,
                       [pageNum |-> pageNum, resetComments |-> resetComments,
                        sortBy |-> order, localComments |-> ucLocalComments])

loadComments(pageNum, resetComments) ==
  /\ loadCommentsCalled(pageNum, resetComments, ucSortBy)
  /\ UNCHANGED << ucSortBy, ucComments, ucHasMore, ucPage, ucLocalComments,
                  ucLikes, ucToggles, notComments >>

loadMore ==
  /\ ~ucLoading /\ ucHasMore
  /\ loadCommentsCalled(ucPage + 1, FALSE, ucSortBy)
  /\ UNCHANGED << ucSortBy, ucComments, ucHasMore, ucPage, ucLocalComments,
                  ucLikes, ucToggles, notComments >>

refreshComments ==
  /\ ucPage' = 1
  /\ loadCommentsCalled(1, TRUE, ucSortBy)
  /\ UNCHANGED << ucSortBy, ucComments, ucHasMore, ucLocalComments, ucLikes,
                  ucToggles, notComments >>

\* a render with another sortBy: the effect on [postId, sortBy] calls
\* loadComments(1, true)
useComments(order) ==
  /\ order # ucSortBy
  /\ ucSortBy' = order
  /\ loadCommentsCalled(1, TRUE, order)
  /\ UNCHANGED << ucComments, ucHasMore, ucPage, ucLocalComments, ucLikes,
                  ucToggles, notComments >>

\* api.fetchComments resolves for the call k
loadSucceeds(k, random) ==
  LET call == ucLoads[k]
      result == apiFetchComments(call.pageNum, call.sortBy, random)
  IN  /\ k \in 1..Len(ucLoads)
      /\ ucComments' = IF call.resetComments \/ call.pageNum = 1
                         THEN result.comments
                         ELSE appendPage(ucComments, result.comments)
      /\ ucHasMore' = result.hasMore
      /\ ucPage' = call.pageNum
      /\ ucLocalComments' = IF call.pageNum = 1 THEN result.comments
                                                ELSE ucLocalComments
      /\ ucLoading' = FALSE
      /\ ucLoads' = RemoveAt(ucLoads, k)
      /\ UNCHANGED << ucSortBy, ucError, ucLikes, ucToggles, notComments >>

\* api.fetchComments rejects for the call k
loadFails(k) ==
  LET call == ucLoads[k]
  IN  /\ k \in 1..Len(ucLoads)
      /\ ucError' = connectionError
      /\ ucComments' = IF call.pageNum = 1 /\ Len(call.localComments) > 0
                         THEN call.localComments
                         ELSE ucComments
      /\ ucLoading' = FALSE
      /\ ucLoads' = RemoveAt(ucLoads, k)
      /\ UNCHANGED << ucSortBy, ucHasMore, ucPage, ucLocalComments, ucLikes,
                      ucToggles, notComments >>

\* the comment with this id as the list has it, NoItem when it has none
commentOf(list, id) ==
  IF \E i \in DOMAIN list : list[i].id = id
    THEN list[CHOOSE i \in DOMAIN list : list[i].id = id]
    ELSE NoItem

\* toggleLike(id) up to await api.toggleLike
toggleLike(id) ==
  /\ ucToggles < MaxToggles
  /\ ucToggles' = ucToggles + 1
  /\ ucLikes' = Append(ucLikes, [id |-> id,
                                 before |-> commentOf(ucComments, id)])
  /\ UNCHANGED << ucSortBy, ucComments, ucLoading, ucError, ucHasMore, ucPage,
                  ucLocalComments, ucLoads, notComments >>

\* the updater of the try block
liked(prevComments, id) ==
  [i \in DOMAIN prevComments |->
     LET comment == prevComments[i]
     IN  IF comment.id = id
           THEN [comment EXCEPT
                   !.isLiked = ~comment.isLiked,
                   !.likes = IF comment.isLiked THEN comment.likes - 1
                                                ELSE comment.likes + 1]
           ELSE comment]

\* the updater of the catch block
reverted(prevComments, id) ==
  [i \in DOMAIN prevComments |->
     LET comment == prevComments[i]
     IN  IF comment.id = id
           THEN [comment EXCEPT
                   !.isLiked = ~comment.isLiked,
                   !.likes = IF comment.isLiked THEN comment.likes + 1
                                                ELSE comment.likes - 1]
           ELSE comment]

\* api.toggleLike resolves for the call k
toggleLikeSucceeds(k) ==
  /\ k \in 1..Len(ucLikes)
  /\ ucComments' = liked(ucComments, ucLikes[k].id)
  /\ ucLikes' = RemoveAt(ucLikes, k)
  /\ UNCHANGED << ucSortBy, ucLoading, ucError, ucHasMore, ucPage,
                  ucLocalComments, ucLoads, ucToggles, notComments >>

\* api.toggleLike rejects for the call k
toggleLikeFails(k) ==
  /\ k \in 1..Len(ucLikes)
  /\ ucComments' = reverted(ucComments, ucLikes[k].id)
  /\ ucError' = likeError
  /\ ucLikes' = RemoveAt(ucLikes, k)
  /\ UNCHANGED << ucSortBy, ucLoading, ucHasMore, ucPage, ucLocalComments,
                  ucLoads, ucToggles, notComments >>

\* the current useComments: loads in any order of arrival
NextLoads ==
  \/ \E pageNum \in 1..MaxPage, resetComments \in BOOLEAN :
       loadComments(pageNum, resetComments)
  \/ loadMore
  \/ refreshComments
  \/ \E order \in SortOrders : useComments(order)
  \/ \E k \in 1..MaxLoads, random \in [GeneratedIds -> RandomLikes] :
       loadSucceeds(k, random)
  \/ \E k \in 1..MaxLoads : loadFails(k)

SpecLoads == Init /\ [][NextLoads]_vars

\* the current useComments: refreshes and likes
NextLikes ==
  \/ refreshComments
  \/ \E k \in 1..MaxLoads, random \in [GeneratedIds -> RandomLikes] :
       loadSucceeds(k, random)
  \/ \E k \in 1..MaxLoads : loadFails(k)
  \/ \E id \in 1..(3 + MaxGenerated) : toggleLike(id)
  \/ \E k \in 1..MaxToggles : toggleLikeSucceeds(k)
  \/ \E k \in 1..MaxToggles : toggleLikeFails(k)

SpecLikes == Init /\ [][NextLikes]_vars

\* one useCounter instance and its callers
NextCounter ==
  \/ initializeCounter
  \/ \E targetPage \in CounterPages : incrementVisit(targetPage)
  \/ autoIncrementFires
  \/ incrementVisitSettles
  \/ resetIncrementFlag
  \/ reload
  \/ fetchVisits

SpecCounter == Init /\ [][NextCounter]_vars

\* useApi without immediate: renders, calls of execute, responses, retries
NextApi ==
  \/ \E c \in BOOLEAN, r \in Retries, rc \in RetryConditions : useApi(c, r, rc)
  \/ \E o \in ApiOptions : execute(o)
  \/ \E d \in ApiData : responseOk(d)
  \/ \E s \in Statuses : responseFails(s)
  \/ retryTimeoutFires
  \/ \E ms \in {retryDelay, cacheTime} : apiTimePasses(ms)

SpecApi == Init /\ [][NextApi]_vars

\* ------------------------------------------------------------------------
\* Claims
\* ------------------------------------------------------------------------
\* nothing is armed or suspended: no timer, no retry run, no addComment
Quiescent == timers = <<>> /\ runs = <<>> /\ adds = <<>>

\* C1: after an 'online' event, with the server reachable ever since and no
\* manual retry, every queued comment is eventually submitted and leaves the
\* pending queue, also when the hook was mounted offline. Were that so, no
\* state could have the queue non-empty with nothing left to run: once the
\* hook has come to rest after the event, the queue is empty.
C1_QueueDrainsAfterOnline ==
  (sinceOnline /\ Quiescent) => lsPending = <<>>

\* C3: after fetchComments completes with the server reachable, comments is
\* the list the server returned and error is null; isLoading is false after
\* the fetch.
C3_FetchLoadsServerList ==
  [][ (fetchComments /\ navOnline /\ serverUp)
        => /\ comments' = sortedComments(dbComments)
           /\ error' = noError
           /\ isLoading' = FALSE ]_vars

\* C4: offline with enableOffline, addComment of a valid, non-duplicate
\* comment makes no request, adds one entry to the pending store and one to
\* the pendingComments state, leaves comments alone and returns
\* {success: true, pending: true}; without enableOffline it queues nothing
\* and returns {success: false, message: 'Sem conexao com a internet'}.
C4_OfflineAddQueuesOnce ==
  [][ \A c \in ValidInputs :
        (addComment(c) /\ ~navOnline
           /\ ~isDuplicateComment(Inputs[c], comments, now))
        => /\ adds' = adds /\ runs' = runs /\ dbComments' = dbComments
           /\ comments' = comments
           /\ ret'.op = "addComment"
           /\ IF enableOffline
                THEN /\ Len(lsPending') = Len(lsPending) + 1
                     /\ SubSeq(lsPending', 1, Len(lsPending)) = lsPending
                     /\ Len(pendingComments') = Len(pendingComments) + 1
                     /\ ret'.val.success /\ ret'.val.pending
                ELSE /\ lsPending' = lsPending
                     /\ pendingComments' = pendingComments
                     /\ ~ret'.val.success
                     /\ ret'.val.message = offlineError ]_vars

\* C4 witness: offline, the last call queued a comment
C4_Witness ==
  /\ ~navOnline /\ enableOffline
  /\ ret.op = "addComment" /\ ret.val.pending
  /\ Len(lsPending) = MaxPending /\ Len(pendingComments) = MaxPending

\* C5: addComment of data that fails validateComment makes no request, leaves
\* comments, pendingComments and the pending store unchanged, sets error,
\* returns {success: false, comment: null} and leaves isSubmitting false.
C5_InvalidAddChangesNothing ==
  [][ \A c \in InvalidInputs :
        addComment(c)
        => /\ adds' = adds /\ runs' = runs /\ dbComments' = dbComments
           /\ comments' = comments
           /\ pendingComments' = pendingComments
           /\ lsPending' = lsPending
           /\ error' # noError
           /\ ret'.op = "addComment"
           /\ ~ret'.val.success
           /\ ret'.val.comment = <<>>
           /\ ~isSubmitting' ]_vars

\* C5 witness: the last call was refused for a forbidden word, with a comment
\* already accepted before it
C5_Witness ==
  /\ ret.op = "addComment" /\ ~ret.val.success
  /\ ret.val.message = <<"Mensagem contem palavras nao permitidas">>
  /\ nextUid > 1

\* a comment with the e-mail and trimmed message of d that addComment accepted
\* less than 5 minutes ago: one still waiting for its request, or one that
\* addComment itself queued (id local_<time>)
acceptedRecently(d) ==
  \E e \in {adds[i] : i \in 1..Len(adds)}
           \cup {lsPending[i] : i \in 1..Len(lsPending)} :
    /\ e.id[1] \in {"temp", "local"}
    /\ e.email = d.email
    /\ trim(e.message) = trim(d.message)
    /\ now - e.date < DUPLICATE_WINDOW

\* C6: addComment neither sends nor queues a comment whose e-mail and trimmed
\* message equal those of a comment it accepted less than 5 minutes earlier;
\* it returns {success: false} with 'Comentario similar ja foi enviado
\* recentemente'.
C6_NoDuplicateAccepted ==
  [][ \A c \in ValidInputs :
        (addComment(c) /\ acceptedRecently(Inputs[c]))
        => /\ adds' = adds
           /\ lsPending' = lsPending
           /\ ret'.op = "addComment"
           /\ ~ret'.val.success
           /\ ret'.val.message = duplicateError ]_vars

\* C7: a queued comment is submitted at most maxRetries times in total across
\* all runs of retryPendingComments.
C7_AtMostMaxRetries == \A u \in DOMAIN sent : sent[u] <= maxRetries

\* a retry run returns in this step, having gone through the queue: after
\* its last await, or at once when the loop had nothing left to submit
runEnds ==
  \/ \E k \in 1..MaxRuns : retrySettles(k) /\ Len(runs') < Len(runs)
  \/ /\ manualRetry \/ \E k \in 1..MaxTimers : timerFires(k)
     /\ Len(lsPending) > 0
     /\ runs' = runs
     /\ ret'.op = "retryPendingComments" /\ ret'.val.processed

\* the timers already armed that the step leaves armed
keptTimers == Len(timers) - (IF \E k \in 1..MaxTimers : timerFires(k) THEN 1 ELSE 0)

\* C8: a run that went through the queue and ends with a comment still in the
\* pending store arms one timer for a further run, due 5 minutes later
\* whatever the attempts made; with the store empty it arms none.
C8_RunEndArmsFixedTimer ==
  [][ runEnds
        => IF Len(lsPending') > 0
             THEN /\ Len(timers') = keptTimers + 1
                  /\ timers'[Len(timers')].kind = "retry"
                  /\ timers'[Len(timers')].due = now + RETRY_DELAY
             ELSE Len(timers') = keptTimers ]_vars

\* C8 witness: a run has ended with a comment left and a timer armed
C8_Witness ==
  /\ ret.op = "retryPendingComments" /\ ret.val.processed
  /\ runs = <<>>
  /\ Len(lsPending) > 0
  /\ \E i \in 1..Len(timers) :
       timers[i].kind = "retry" /\ timers[i].due = now + RETRY_DELAY

\* C9: at most one run of retryPendingComments is in progress at any time.
C9_AtMostOneRun == Len(runs) <= 1

\* the local visit counters, read off the stored item
localTotal(item) == IF item = NoItem THEN 0 ELSE item.total
localCoverPage(item) == IF item = NoItem THEN 0 ELSE item.coverPage

showsStored(tab, key) ==
  \A j \in Instances :
    (tabOf(j) = tab /\ keyOf(j) = key) => storedValue'[j] = readValue(ls'[key])

\* no 'storage' event is left to deliver after the step
allDelivered == \A t \in Tabs : storageEvents'[t] = << >>

\* C10: after setValue or removeValue in an instance, and after a 'storage'
\* event from another tab for the key once no further event is on its way,
\* every instance of the tab bound to the key holds the deserialized stored
\* value, or initialValue when the key is absent; an event for another key
\* leaves the value as it was.
C10_InstancesConverge ==
  [][ /\ \A i \in Instances :
           ((\E value \in Values : setValue(i, value)) \/ removeValue(i))
           => showsStored(tabOf(i), keyOf(i))
      /\ \A tab \in Tabs :
           storageEvent(tab)
           => \A j \in Instances :
                tabOf(j) = tab
                => IF Head(storageEvents[tab]).key = keyOf(j)
                     THEN allDelivered
                            => storedValue'[j] = readValue(ls'[keyOf(j)])
                     ELSE Head(storageEvents[tab]).key # NullKey
                            => storedValue'[j] = storedValue[j]
    ]_vars

\* C11: after setValue(v) without error the stored item is serialize(v) and
\* the value of the hook is v; when serialize or setItem throws, storage and
\* value stay as they were and onError is called with 'write'; after
\* removeValue the key is absent and the value is initialValue.
C11_StateMatchesStorage ==
  [][ \A i \in Instances :
        /\ \A value \in AnyValues :
             setValue(i, value)
             => IF canSerialize(value) /\ ~storageFull
                  THEN /\ ls'[keyOf(i)] = serialize(value)
                       /\ storedValue'[i] = value
                  ELSE /\ ls' = ls
                       /\ storedValue' = storedValue
                       /\ errorCalls' # errorCalls
                       /\ errorCalls'[Len(errorCalls')].operation = "write"
        /\ removeValue(i)
             => ls'[keyOf(i)] = NoItem /\ storedValue'[i] = initialValue
    ]_vars

\* no timer of useDebounce is armed after the step
debounceAtRest == timeoutTimer' = NoTimer /\ maxTimer' = NoTimer

\* C12: with the default options debouncedValue changes only to the value
\* the input has held for a full delay, and once no update is pending any
\* more debouncedValue equals the input, also after delay changed while an
\* update was pending.
C12_DebounceSettles ==
  [][ /\ debouncedValue' # debouncedValue
           => /\ debouncedValue' = debounceValue
              /\ now - changedAt >= debounceDelay
      /\ debounceAtRest => debouncedValue' = debounceValue'
    ]_vars

\* C13: with maxWait set, a change waits for its update no longer than
\* maxWait: while debouncedValue is behind the input, the first change not
\* delivered yet is at most maxWait old.
C13_MaxWaitBoundsDelay ==
  (debounceMaxWait > 0 /\ pendingSince # -1 /\ debouncedValue # debounceValue)
    => now - pendingSince <= debounceMaxWait

\* C14: useApi with retry = n > 0 and the default retryCondition: when attempt
\* k < n fails with a status of 500 or more, the next attempt is armed
\* retryDelay * 2^k later, error stays as it is and onError is not called; no
\* call is attempted more than n + 1 times.
C14_ServerErrorIsRetried ==
  [][ /\ ( /\ retryConditionOpt = "default"
           /\ apiFetch # NoTimer
           /\ apiFetch.attempt < retry
           /\ \E s \in Statuses : s >= 500 /\ responseFails(s) )
          => /\ retryTimeoutRef' # NoTimer
             /\ retryTimeoutRef'.due = now + retryDelay * 2 ^ apiFetch.attempt
             /\ apiError' = apiError
             /\ onErrorCalls' = onErrorCalls
      /\ attempts' # attempts => attempts' <= retry + 1
    ]_vars

\* C15: execute is answered from the cache, without a request, only when cache
\* is on and an entry stored for the same options exists whose age is at most
\* cacheTime.
C15_CacheAnswersSameRequest ==
  [][ \A o \in ApiOptions :
        (execute(o) /\ apiFetch' = NoTimer)
          => /\ cache
             /\ cacheRef[getCacheKey(o)] # undefined
             /\ storedFor[getCacheKey(o)] = o
             /\ now - cacheRef[getCacheKey(o)].timestamp <= cacheTime
    ]_vars

\* C16: the votes record always has exactly the keys cover1, cover2 and
\* cover3; a request answered with 400 leaves the votes as they are; whenever
\* the stored votes change, exactly one cover's count grew by 1 and the other
\* two stayed, so no count ever decreases.
C16_VoteAddsOne ==
  [][ /\ DOMAIN dbVotes' = Covers
      /\ (ret' # ret /\ ret'.val.status = 400) => dbVotes' = dbVotes
      /\ dbVotes' # dbVotes
           => \E c \in Covers : dbVotes' = [dbVotes EXCEPT ![c] = @ + 1]
    ]_vars

\* the sum of the daily counts
RECURSIVE dailySum(_)
dailySum(daily) ==
  IF DOMAIN daily = {} THEN 0
  ELSE LET d == CHOOSE x \in DOMAIN daily : TRUE
       IN  daily[d] + dailySum([x \in (DOMAIN daily) \ {d} |-> daily[x]])

\* the count of a day, 0 for a day without an entry
dailyCount(visits, day) ==
  IF day \in DOMAIN visits.daily THEN visits.daily[day] ELSE 0

\* C17: with the requests handled one after the other, each POST
\* /api/visits/increment answered with 200 adds 1 to the count of today and to
\* no other day, 1 to total for page 'total', 1 to coverPage for page 'cover'
\* and to neither for another page; the daily counts sum to the number of such
\* requests, which is at least total + coverPage.
C17_VisitsAddUp ==
  /\ [][ visitsServed' # visitsServed
           => /\ visitsServed' = visitsServed + 1
              /\ dailyCount(dbVisits', today(now))
                   = dailyCount(dbVisits, today(now)) + 1
              /\ \A d \in 0..MaxDays + 1 :
                   d # today(now)
                     => dailyCount(dbVisits', d) = dailyCount(dbVisits, d)
              /\ \E page \in Pages :
                   /\ postVisits(page, "ok")
                   /\ dbVisits'.total
                        = dbVisits.total + (IF page = "total" THEN 1 ELSE 0)
                   /\ dbVisits'.coverPage
                        = dbVisits.coverPage + (IF page = "cover" THEN 1 ELSE 0)
        ]_vars
  /\ [](/\ dailySum(dbVisits.daily) = visitsServed
        /\ visitsServed >= dbVisits.total + dbVisits.coverPage)

\* requests for all three kinds of page were counted, on two days
C17_Witness ==
  /\ visitsServed >= 3
  /\ dbVisits.total = 1
  /\ dbVisits.coverPage = 1
  /\ Cardinality(DOMAIN dbVisits.daily) = 2

\* C18: between two resets of its flag one useCounter instance sends at most
\* one increment request, and a call of incrementVisit made while the flag is
\* set sends nothing and leaves the visit counts as they are.
C18_OneIncrementPerFlag ==
  [][ /\ requestsSent' <= 1
      /\ \A targetPage \in CounterPages :
           (hasIncremented /\ incrementVisit(targetPage))
             => /\ counterVisits' = counterVisits
                /\ requestsSent' = requestsSent
                /\ increments' = increments
    ]_vars

\* a call of incrementVisit returned at once: the flag is set, one request
\* was sent and has been answered
C18_Witness ==
  /\ ret.op = "incrementVisit"
  /\ ret.val = << >>
  /\ hasIncremented
  /\ requestsSent = 1
  /\ increments = << >>
  /\ ~autoTimer /\ ~initializing

\* C19: when the request of toggleLike fails for a comment that still has the
\* isLiked and likes it had when toggleLike was called, the comment keeps
\* them, no other comment changes, and error is set.
C19_FailedLikeIsReverted ==
  [][ \A k \in 1..MaxToggles :
        ( /\ toggleLikeFails(k)
          /\ ucLikes[k].before # NoItem
          /\ commentOf(ucComments, ucLikes[k].id) = ucLikes[k].before )
          => /\ commentOf(ucComments', ucLikes[k].id) = ucLikes[k].before
             /\ \A i \in DOMAIN ucComments :
                  ucComments[i].id # ucLikes[k].id
                    => ucComments'[i] = ucComments[i]
             /\ ucError' # noError
    ]_vars

\* C20: whatever loadComments, loadMore and refreshComments calls were made
\* and in whatever order their responses arrived, no two entries of comments
\* have the same id.
C20_NoDuplicateIds ==
  \A i, j \in DOMAIN ucComments :
    i # j => ucComments[i].id # ucComments[j].id

\* a further page was appended and an entry of it was skipped
C20_Witness ==
  /\ ucPage = 2
  /\ Len(ucComments) > pageSize
  /\ Len(ucComments) < 3 + MaxGenerated
  /\ ucLoads = << >>

\* a call of addComment returns in this step: at once, or after its await
addReturns ==
  \/ \E k \in 1..MaxAdds : addCommentSettles(k)
  \/ \E c \in CommentInputs : addComment(c) /\ adds' = adds

\* C21: with enableOffline, whenever addComment has returned or a run of
\* retryPendingComments has gone through the queue and returned, the
\* pendingComments state has as many entries as the 'pendingComments' list in
\* localStorage, also after an online submission whose request failed.
C21_PendingStateMirrorsStore ==
  [][ (enableOffline /\ (addReturns \/ runEnds))
        => Len(pendingComments') = Len(lsPending')
    ]_vars

====
